---------------------------- MODULE Spec2Model ----------------------------
(***************************************************************************)
(* Model of the trading executor (src/executor.py):                        *)
(*   run_daily_trade                        - signal, its age, balance     *)
(*   BinanceFuturesExecutor.execute_trades  - position book, trade plan,   *)
(*                                            sequential execution loop    *)
(*   BinanceFuturesExecutor.place_order     - order sizing and submission  *)
(*   BinanceFuturesExecutor.format_symbol_for_binance                      *)
(* and of the data loader (src/data_loader.py):                            *)
(*   BinanceDailyDataUpdater.update_all_data - merge with the persisted    *)
(*                                            file and save                *)
(*   BinanceDailyDataUpdater.fetch_daily_klines - paged requests, retries  *)
(*                                                                         *)
(* Quantities are Python floats.  They are modelled in fixed point:        *)
(* a quantity value v stands for v / QtyScale contracts, a price value p   *)
(* for p / PriceScale quote units.  Symbols are strings, modelled as       *)
(* sequences of tokens ("BTC", "/", ":", "USDT").                          *)
(***************************************************************************)
EXTENDS Integers, Sequences, FiniteSets, TLC

VARIABLES
    pc,                 \* position of the running method
    caller,             \* who called place_order: "execute_trades" or "direct"
    positions,          \* what exchange.fetch_positions() returns
    target_positions,   \* argument of execute_trades (insertion-ordered dict)
    current_positions,  \* local of execute_trades (insertion-ordered dict)
    trade_plan,         \* local of execute_trades
    idx,                \* index of the trade the for-loop is at
    symbol,             \* place_order argument
    side,               \* place_order argument
    quantity,           \* place_order argument / local (reassigned by sizing)
    params,             \* place_order argument: positionSide, reduceOnly
    current_price,      \* place_order local: ticker['last']
    request,            \* the arguments place_order was called with
    result,             \* what the last place_order returned: "order", "none", "-"
    orders,             \* every exchange.create_order call that returned an order
    faults,             \* the kinds of error the exchange raises during this run
    log,                \* the log lines about the trades of the plan, in order
    signal,             \* the latest signal: its target book and its age in days
    balance,            \* run_daily_trade local: what get_account_balance returned
    warned,             \* whether the warning about an old signal was logged
    data_file,          \* data loader: the parquet file at data_path
    prior_rows,         \* data loader: the rows the file held when the update began
    update_mode,        \* data loader: argument of update_all_data
    combined_data,      \* data loader: local of update_all_data
    emergency_csv,      \* data loader: the rows of the emergency CSV file
    failure,            \* data loader: the step of the update that has failed
    history,            \* the number of daily bars the exchange has of the symbol
    start_time,         \* fetch_daily_klines local: 'startTime' of the next request
    all_klines,         \* fetch_daily_klines local: the open times of the bars kept
    klines,             \* fetch_daily_klines local: the last page, once assigned
    retry,              \* fetch_daily_klines: requests made for the current page
    response,           \* fetch_daily_klines: how the last request for the page ended
    wait_time,          \* fetch_daily_klines local: the last wait before a retry
    df                  \* what fetch_daily_klines returned; "-" while it runs

vars == <<pc, caller, positions, target_positions, current_positions, trade_plan,
          idx, symbol, side, quantity, params, current_price, request, result, orders,
          faults, log, signal, balance, warned,
          data_file, prior_rows, update_mode, combined_data, emergency_csv, failure,
          history, start_time, all_klines, klines, retry, response, wait_time, df>>

--------------------------------------------------------------------------
(* Fixed-point representation and program constants *)

\* quantity values per contract: 1 stands for 0.5 contracts
QtyScale == 2

\* price values per quote unit: 4 stands for 0.4 USDT
PriceScale == 10

\* the minimum notional value of place_order, in USDT
MinNotional == 5

\* the threshold of an adjust in execute_trades, in contracts
Epsilon == 1

\* the age, in days, beyond which run_daily_trade warns about the signal
StaleDays == 3

(* Bounds of the model (quantities in the units of QtyScale).  Float        *)
(* arithmetic is taken as exact below MaxExactFloat.                        *)

\* largest magnitude of a position record
MaxContracts == 4

\* largest magnitude of a target quantity
MaxTarget == 3

\* largest magnitude of the quantity of a direct call of place_order
MaxRequest == 26

\* The magnitude from which adding 1 to a float no longer changes it
\* (2^53 for a Python float), scaled down.
MaxExactFloat == 28

\* largest magnitude of a position record of the one-instrument account
MaxScenarioContracts == 6

\* largest magnitude of a target quantity of the one-instrument account
MaxScenarioTarget == 8

\* largest age of a signal, in days
MaxDays == 4

\* number of candles (symbol, open_time) the data loader knows of
MaxCandles == 2

\* largest number of daily bars the exchange has of a symbol
MaxBars == 5

\* 'limit' of a klines request (1500 bars), scaled down
PageLimit == 2

\* largest number of bars fetch_daily_klines is followed to
MaxRows == 8

\* the distance of two daily bars in the unit of open_time (86400000 ms),
\* scaled down
DayMs == 2

\* max_retries of fetch_daily_klines
MaxRetries == 2

\* seconds waited per attempt after a 429, a 418, a timeout, a request error
RateLimitWait == 60
BanWait == 300
TimeoutWait == 5
RequestErrorWait == 5

Bases == {"BTC", "ETH"}

\* the target book has one entry for an instrument at most
MaxTargets == Cardinality(Bases)

\* the exchange reports as many records as there are instruments at most
MaxPositions == Cardinality(Bases)

\* what the ticker may report as last price: 0, 0.4 and 6.0
Prices == {0, 4, 60}

\* what the market may give as minimum amount: 0 (or none) and 1 contract
MinAmounts == {0, QtyScale}

\* what get_account_balance may return: -1 USDT, 0.0 (also on error) and
\* 1 USDT
Balances == {-PriceScale, 0, PriceScale}

\* The exceptions an exchange call raises, by what they mean to the caller:
\* invalid credentials, a transient network condition (timeout, rate limit,
\* exchange not available), any other error.
ErrorKinds == {"auth", "transient", "error"}

Abs(x) == IF x < 0 THEN -x ELSE x

--------------------------------------------------------------------------
(* Symbols *)

\* The unified symbol the exchange library reports for a position.
ExchangeSymbol(b) == <<b, "/", "USDT", ":", "USDT">>

\* The symbol the signal log yields: the regular expression (\w+USDT).
LogSymbol(b) == <<b, "USDT">>

RECURSIVE SplitColonHead(_)
SplitColonHead(s) ==
    IF s = <<>> \/ Head(s) = ":" THEN <<>>
    ELSE <<Head(s)>> \o SplitColonHead(Tail(s))

RECURSIVE RemoveSlash(_)
RemoveSlash(s) ==
    IF s = <<>> THEN <<>>
    ELSE IF Head(s) = "/" THEN RemoveSlash(Tail(s))
    ELSE <<Head(s)>> \o RemoveSlash(Tail(s))

StripUSDT(s) ==
    IF Len(s) > 0 /\ s[Len(s)] = "USDT" THEN SubSeq(s, 1, Len(s) - 1) ELSE s

format_symbol_for_binance(s) ==
    StripUSDT(RemoveSlash(SplitColonHead(s))) \o <<"USDT">>

--------------------------------------------------------------------------
(* Insertion-ordered dictionaries: a sequence of entries with distinct keys *)

Keys(d) == {d[i].symbol : i \in 1..Len(d)}

HasKey(d, k) == \E i \in 1..Len(d) : d[i].symbol = k

IndexOf(d, k) == CHOOSE i \in 1..Len(d) : d[i].symbol = k

NoPosition == [LONG |-> 0, SHORT |-> 0]

\* current_positions.get(formatted_symbol, {'LONG': 0, 'SHORT': 0})
GetInfo(book, k) ==
    IF HasKey(book, k)
    THEN [LONG |-> book[IndexOf(book, k)].LONG, SHORT |-> book[IndexOf(book, k)].SHORT]
    ELSE NoPosition

--------------------------------------------------------------------------
(* Position book: execute_trades, the loop over fetch_positions() *)

\* Mutation of RecordPosition: a record without contracts is recorded too.
RecordPositionKeepsZero(book, pos) ==
    LET k == format_symbol_for_binance(pos.symbol)
        b == IF HasKey(book, k)
             THEN book
             ELSE Append(book, [symbol |-> k, LONG |-> 0, SHORT |-> 0])
        i == IndexOf(b, k)
    IN  [b EXCEPT ![i] = [@ EXCEPT ![pos.positionSide] = pos.contracts]]

\* One iteration of the loop over the raw position records.
RecordPosition(book, pos) ==
    IF Abs(pos.contracts) > 0
    THEN LET k == format_symbol_for_binance(pos.symbol)
             b == IF HasKey(book, k)
                  THEN book
                  ELSE Append(book, [symbol |-> k, LONG |-> 0, SHORT |-> 0])
             i == IndexOf(b, k)
         IN  [b EXCEPT ![i] = [@ EXCEPT ![pos.positionSide] = pos.contracts]]
    ELSE book

RECURSIVE BuildBookFrom(_, _)
BuildBookFrom(book, raw) ==
    IF raw = <<>> THEN book
    ELSE BuildBookFrom(RecordPosition(book, Head(raw)), Tail(raw))

BuildBook(raw) == BuildBookFrom(<<>>, raw)

\* pos['info']['positionSide'] of a record with contracts raises KeyError when
\* the record has no side tag ("-")
Unreadable(pos) == Abs(pos.contracts) > 0 /\ pos.positionSide = "-"

\* what the loop leaves when the side tag is missing: the key of the record
\* is in the book already
KeyOnly(book, pos) ==
    LET k == format_symbol_for_binance(pos.symbol)
    IN  IF HasKey(book, k) THEN book
        ELSE Append(book, [symbol |-> k, LONG |-> 0, SHORT |-> 0])

\* the loop over the records: the book, and whether a record raised
RECURSIVE ReadFrom(_, _)
ReadFrom(book, raw) ==
    IF raw = <<>> THEN [book |-> book, raised |-> FALSE]
    ELSE IF Unreadable(Head(raw)) THEN [book |-> KeyOnly(book, Head(raw)), raised |-> TRUE]
    ELSE ReadFrom(RecordPosition(book, Head(raw)), Tail(raw))

ReadPositions(raw) == ReadFrom(<<>>, raw)

--------------------------------------------------------------------------
(* Trade plan: execute_trades, phases 1 and 2 *)

Trade(sym, sd, qty, ps, act) ==
    [symbol |-> sym, side |-> sd, quantity |-> qty, positionSide |-> ps, action |-> act]

\* Mutation of HeldSide: the comparison admits a flat side.
HeldSideOrFlat(magnitude) == magnitude >= 0

\* Whether a held side is closed: positions_info[side] > 0
HeldSide(magnitude) == magnitude > 0

CloseLong(sym, info) ==
    IF HeldSide(info.LONG) THEN <<Trade(sym, "sell", info.LONG, "LONG", "close")>>
    ELSE <<>>

CloseShort(sym, info) ==
    IF HeldSide(info.SHORT) THEN <<Trade(sym, "buy", info.SHORT, "SHORT", "close")>>
    ELSE <<>>

\* Mutation of QtyDiff: the held magnitude is not subtracted.
QtyDiffIgnoresHeld(wanted, held) == wanted

\* qty_diff = target magnitude - held magnitude of the wanted side
QtyDiff(wanted, held) == wanted - held

\* Mutation of NeedsAdjust: a difference of exactly the threshold is adjusted.
NeedsAdjustAtThreshold(diff) == Abs(diff) >= Epsilon * QtyScale

\* abs(qty_diff) > 1
NeedsAdjust(diff) == Abs(diff) > Epsilon * QtyScale

AdjustLong(sym, target_qty, info) ==
    LET qty_diff == QtyDiff(target_qty, info.LONG)
    IN  IF NeedsAdjust(qty_diff)
        THEN <<Trade(sym, IF qty_diff > 0 THEN "buy" ELSE "sell",
                     Abs(qty_diff), "LONG", "adjust")>>
        ELSE <<>>

\* Mutation of AdjustShort: a short side that is too small is bought.
AdjustShortBuys(sym, target_qty, info) ==
    LET qty_diff == QtyDiff(Abs(target_qty), info.SHORT)
    IN  IF NeedsAdjust(qty_diff)
        THEN <<Trade(sym, IF qty_diff > 0 THEN "buy" ELSE "sell",
                     Abs(qty_diff), "SHORT", "adjust")>>
        ELSE <<>>

AdjustShort(sym, target_qty, info) ==
    LET qty_diff == QtyDiff(Abs(target_qty), info.SHORT)
    IN  IF NeedsAdjust(qty_diff)
        THEN <<Trade(sym, IF qty_diff > 0 THEN "sell" ELSE "buy",
                     Abs(qty_diff), "SHORT", "adjust")>>
        ELSE <<>>

\* Mutation of ClearAbsent: the short side is forgotten.
ClearAbsentLongOnly(entry, target) ==
    IF ~HasKey(target, entry.symbol) THEN CloseLong(entry.symbol, entry) ELSE <<>>

\* Mutation of ClearAbsent: every held symbol is cleared, in the target or not.
ClearAbsentAlways(entry, target) ==
    CloseLong(entry.symbol, entry) \o CloseShort(entry.symbol, entry)

\* Phase 1, one iteration: a held symbol that is no key of the target book.
ClearAbsent(entry, target) ==
    IF ~HasKey(target, entry.symbol)
    THEN CloseLong(entry.symbol, entry) \o CloseShort(entry.symbol, entry)
    ELSE <<>>

RECURSIVE Phase1(_, _)
Phase1(book, target) ==
    IF book = <<>> THEN <<>>
    ELSE ClearAbsent(Head(book), target) \o Phase1(Tail(book), target)

\* Mutation of PlanLong: the adjust is planned before the close.
PlanLongAdjustFirst(sym, target_qty, info) ==
    AdjustLong(sym, target_qty, info) \o CloseShort(sym, info)

\* Phase 2, target_qty > 0
PlanLong(sym, target_qty, info) ==
    CloseShort(sym, info) \o AdjustLong(sym, target_qty, info)

\* Phase 2, target_qty < 0
PlanShort(sym, target_qty, info) ==
    CloseLong(sym, info) \o AdjustShort(sym, target_qty, info)

\* Mutation of PlanFlat: the short side is left open.
PlanFlatLongOnly(sym, info) == CloseLong(sym, info)

\* Phase 2, target_qty == 0
PlanFlat(sym, info) ==
    CloseLong(sym, info) \o CloseShort(sym, info)

\* Phase 2, one iteration.
PlanTarget(entry, book) ==
    LET current_info == GetInfo(book, format_symbol_for_binance(entry.symbol))
    IN  IF entry.qty > 0 THEN PlanLong(entry.symbol, entry.qty, current_info)
        ELSE IF entry.qty < 0 THEN PlanShort(entry.symbol, entry.qty, current_info)
        ELSE PlanFlat(entry.symbol, current_info)

RECURSIVE Phase2(_, _)
Phase2(target, book) ==
    IF target = <<>> THEN <<>>
    ELSE PlanTarget(Head(target), book) \o Phase2(Tail(target), book)

\* Mutation of TradePlan: the target is gone through before the held symbols.
TradePlanTargetFirst(book, target) == Phase2(target, book) \o Phase1(book, target)

TradePlan(book, target) == Phase1(book, target) \o Phase2(target, book)

--------------------------------------------------------------------------
(* Order sizing: place_order *)

\* notional_value < 5, with notional_value = abs(quantity) * current_price
BelowFloor(q, p) == Abs(q) * p < MinNotional * QtyScale * PriceScale

\* float addition: exact below MaxExactFloat, absorbed from there on
FloatAdd(q, d) == IF Abs(q) >= MaxExactFloat THEN q ELSE q + d

\* the body of the while loop: quantity += 1 or quantity -= 1
RaiseOneLot(q) == IF q > 0 THEN FloatAdd(q, QtyScale) ELSE FloatAdd(q, -QtyScale)

\* params.get('reduceOnly', False)
IsReduceOnly(p) == p.reduceOnly

\* Mutation of MustRaise: the reduce-only test is inverted.
MustRaiseInverted(q, p, prm) == BelowFloor(q, p) /\ IsReduceOnly(prm)

\* the condition of the if that guards the while loop
MustRaise(q, p, prm) == BelowFloor(q, p) /\ ~IsReduceOnly(prm)

\* quantity = int(abs(quantity))
IntAbs(q) == (Abs(q) \div QtyScale) * QtyScale

\* quantity < min_amount: the order is skipped
BelowMinAmount(q, min_amount) == q < min_amount

\* the automatic choice of positionSide when params does not give one
InferPositionSide(sd, held) ==
    IF sd = "buy"
    THEN (IF held = "short" THEN "SHORT" ELSE "LONG")
    ELSE (IF held = "long" THEN "LONG" ELSE "SHORT")

\* the params of the call of place_order in the execution loop
TradeParams(trade) == [positionSide |-> trade.positionSide, reduceOnly |-> FALSE]

NoParams == [positionSide |-> "none", reduceOnly |-> FALSE]

--------------------------------------------------------------------------
(* Initial states *)

PositionRecords ==
    [symbol : {ExchangeSymbol(b) : b \in Bases},
     positionSide : {"LONG", "SHORT"},
     contracts : 0..MaxContracts]

\* fetch_positions(): at most one record per symbol and position side
PositionLists ==
    {raw \in UNION {[1..n -> PositionRecords] : n \in 0..MaxPositions} :
        \A i, j \in 1..Len(raw) :
            (raw[i].symbol = raw[j].symbol /\ raw[i].positionSide = raw[j].positionSide)
                => i = j}

TargetEntries == [symbol : {LogSymbol(b) : b \in Bases}, qty : (-MaxTarget)..MaxTarget]

\* the dict parse_log_file returns: distinct keys, each matching (\w+USDT)
TargetBooks ==
    {t \in UNION {[1..n -> TargetEntries] : n \in 0..MaxTargets} :
        \A i, j \in 1..Len(t) : t[i].symbol = t[j].symbol => i = j}

NoCall ==
    /\ symbol = <<>>
    /\ side = "-"
    /\ quantity = 0
    /\ params = NoParams
    /\ current_price = 0
    /\ request = 0

\* run_daily_trade does not run
NoDaily ==
    /\ signal = [target |-> <<>>, days |-> 0]
    /\ balance = 0
    /\ warned = FALSE

\* A row of the dataset: the candle it is for (symbol and open_time) and
\* the values it gives for it.
Rows == [candle : 1..MaxCandles, values : {"a", "b"}]

CandlesOf(rows) == {r.candle : r \in rows}

\* a dataset with one row for a candle at most
Datasets ==
    {rows \in SUBSET Rows : \A r, q \in rows : r.candle = q.candle => r = q}

NoFile == [exists |-> FALSE, readable |-> FALSE, rows |-> {}]

\* the rows that can be read back from a file
RowsHeld(file) == IF file.exists /\ file.readable THEN file.rows ELSE {}

\* a local that was never assigned, and one that holds a page
Unbound == [bound |-> FALSE, rows |-> <<>>]
Bound(rows) == [bound |-> TRUE, rows |-> rows]

\* fetch_daily_klines does not run
NoFetch ==
    /\ history = 0
    /\ start_time = 0
    /\ all_klines = <<>>
    /\ klines = Unbound
    /\ retry = 0
    /\ response = "-"
    /\ wait_time = 0
    /\ df = "-"

\* the data loader does not run
NoLoader ==
    /\ data_file = NoFile
    /\ prior_rows = {}
    /\ update_mode = "-"
    /\ combined_data = {}
    /\ emergency_csv = {}
    /\ NoFetch
    /\ failure = "-"

\* update_all_data(update_mode) has fetched new rows and concatenated them
LoaderInit ==
    /\ pc = "merge"
    /\ caller = "-"
    /\ positions = <<>>
    /\ target_positions = <<>>
    /\ current_positions = <<>>
    /\ trade_plan = <<>>
    /\ idx = 0
    /\ NoCall
    /\ result = "-"
    /\ orders = <<>>
    /\ faults = {"error"}
    /\ log = <<>>
    /\ NoDaily
    /\ data_file \in {NoFile} \cup
                     {[exists |-> TRUE, readable |-> TRUE, rows |-> d] : d \in Datasets}
    /\ prior_rows = RowsHeld(data_file)
    /\ update_mode \in {"incremental", "full"}
    /\ combined_data \in Datasets \ {{}}
    /\ emergency_csv = {}
    /\ failure = "-"
    /\ NoFetch

\* the start of a fetch: the default start date, or the open time after the
\* first bar
StartTimes == {0, DayMs + 1}

\* fetch_daily_klines(symbol, start_timestamp) is called
FetchInit ==
    /\ pc = "fk_request"
    /\ caller = "-"
    /\ positions = <<>>
    /\ target_positions = <<>>
    /\ current_positions = <<>>
    /\ trade_plan = <<>>
    /\ idx = 0
    /\ NoCall
    /\ result = "-"
    /\ orders = <<>>
    /\ faults = {"error"}
    /\ log = <<>>
    /\ NoDaily
    /\ data_file = NoFile
    /\ prior_rows = {}
    /\ update_mode = "-"
    /\ combined_data = {}
    /\ emergency_csv = {}
    /\ failure = "-"
    /\ history \in 0..MaxBars
    /\ start_time \in StartTimes
    /\ all_klines = <<>>
    /\ klines = Unbound
    /\ retry = 0
    /\ response = "-"
    /\ wait_time = 0
    /\ df = "-"

\* execute_trades(target_positions) is called
Init ==
    /\ pc = "fetch_positions"
    /\ caller = "execute_trades"
    /\ positions \in PositionLists
    /\ target_positions \in TargetBooks
    /\ current_positions = <<>>
    /\ trade_plan = <<>>
    /\ idx = 0
    /\ NoCall
    /\ result = "-"
    /\ orders = <<>>
    /\ faults = {"error"}
    /\ log = <<>>
    /\ NoDaily
    /\ NoLoader

\* fetch_positions() of an account that trades one instrument
ScenarioPositionLists ==
    {raw \in UNION {[1..n -> [symbol : {ExchangeSymbol("BTC")},
                              positionSide : {"LONG", "SHORT"},
                              contracts : 0..MaxScenarioContracts]] : n \in 0..2} :
        \A i, j \in 1..Len(raw) : raw[i].positionSide = raw[j].positionSide => i = j}

\* a signal that names one instrument at most
ScenarioTargetBooks ==
    {<<>>} \cup {<<[symbol |-> LogSymbol("BTC"), qty |-> q]>> :
                    q \in (-MaxScenarioTarget)..MaxScenarioTarget}

\* execute_trades(target_positions) is called on a one-instrument account
ScenarioInit ==
    /\ pc = "fetch_positions"
    /\ caller = "execute_trades"
    /\ positions \in ScenarioPositionLists
    /\ target_positions \in ScenarioTargetBooks
    /\ current_positions = <<>>
    /\ trade_plan = <<>>
    /\ idx = 0
    /\ NoCall
    /\ result = "-"
    /\ orders = <<>>
    /\ faults = {"error"}
    /\ log = <<>>
    /\ NoDaily
    /\ NoLoader

\* the spellings of an instrument format_symbol_for_binance accepts:
\* 'BTCUSDT', 'BTC/USDT' and 'BTC/USDT:USDT'
Spellings(b) == {LogSymbol(b), <<b, "/", "USDT">>, ExchangeSymbol(b)}

\* a target book a caller of execute_trades may pass: one instrument, in any
\* spelling
SpelledTargetBooks ==
    {<<[symbol |-> s, qty |-> q]>> : s \in Spellings("BTC"), q \in (-MaxTarget)..MaxTarget}

SpelledPositionLists ==
    {raw \in ScenarioPositionLists :
        \A i \in 1..Len(raw) : raw[i].contracts <= MaxContracts}

\* execute_trades(target_positions) is called with a book of any spelling
SpelledInit ==
    /\ pc = "fetch_positions"
    /\ caller = "execute_trades"
    /\ positions \in SpelledPositionLists
    /\ target_positions \in SpelledTargetBooks
    /\ current_positions = <<>>
    /\ trade_plan = <<>>
    /\ idx = 0
    /\ NoCall
    /\ result = "-"
    /\ orders = <<>>
    /\ faults = {"error"}
    /\ log = <<>>
    /\ NoDaily
    /\ NoLoader

\* fetch_positions() with records that may lack the side tag
TaglessPositionLists ==
    {raw \in UNION {[1..n -> [symbol : {ExchangeSymbol(b) : b \in Bases},
                              positionSide : {"LONG", "SHORT", "-"},
                              contracts : {0, MaxContracts}]] : n \in 0..MaxPositions} :
        \A i, j \in 1..Len(raw) :
            (raw[i].symbol = raw[j].symbol /\ raw[i].positionSide = raw[j].positionSide)
                => i = j}

\* execute_trades(target_positions) is called; the exchange may leave the
\* side tag out of a record
TaglessInit ==
    /\ pc = "fetch_positions"
    /\ caller = "execute_trades"
    /\ positions \in TaglessPositionLists
    /\ target_positions \in {t \in TargetBooks :
                                \A i \in 1..Len(t) : t[i].qty \in {-MaxTarget, 0, MaxTarget}}
    /\ current_positions = <<>>
    /\ trade_plan = <<>>
    /\ idx = 0
    /\ NoCall
    /\ result = "-"
    /\ orders = <<>>
    /\ faults = {"error"}
    /\ log = <<>>
    /\ NoDaily
    /\ NoLoader

\* fetch_positions(): every side is flat or holds MaxContracts
FaultPositionLists ==
    {raw \in PositionLists : \A i \in 1..Len(raw) : raw[i].contracts \in {0, MaxContracts}}

\* a signal whose quantities are 0 or of magnitude MaxTarget
FaultTargetBooks ==
    {t \in TargetBooks : \A i \in 1..Len(t) : t[i].qty \in {-MaxTarget, 0, MaxTarget}}

\* execute_trades(target_positions) is called; the exchange raises errors of
\* every kind
FaultInit ==
    /\ pc = "fetch_positions"
    /\ caller = "execute_trades"
    /\ positions \in FaultPositionLists
    /\ target_positions \in FaultTargetBooks
    /\ current_positions = <<>>
    /\ trade_plan = <<>>
    /\ idx = 0
    /\ NoCall
    /\ result = "-"
    /\ orders = <<>>
    /\ faults = ErrorKinds
    /\ log = <<>>
    /\ NoDaily
    /\ NoLoader

\* run_daily_trade() is called: the latest log file holds a signal
DailyInit ==
    /\ pc = "read_signal"
    /\ caller = "execute_trades"
    /\ signal \in [target : FaultTargetBooks, days : 0..MaxDays]
    /\ positions \in FaultPositionLists
    /\ target_positions = <<>>
    /\ current_positions = <<>>
    /\ trade_plan = <<>>
    /\ idx = 0
    /\ NoCall
    /\ result = "-"
    /\ orders = <<>>
    /\ faults = {"error"}
    /\ log = <<>>
    /\ balance = 0
    /\ warned = FALSE
    /\ NoLoader

\* place_order(symbol, side, quantity, params) is called on its own
SizerInit ==
    /\ pc = "po_ticker"
    /\ caller = "direct"
    /\ positions = <<>>
    /\ target_positions = <<>>
    /\ current_positions = <<>>
    /\ trade_plan = <<>>
    /\ idx = 0
    /\ symbol = LogSymbol("BTC")
    /\ side \in {"buy", "sell"}
    /\ quantity \in (-MaxRequest)..MaxRequest
    /\ params \in [positionSide : {"LONG", "SHORT", "none"}, reduceOnly : BOOLEAN]
    /\ current_price = 0
    /\ request = quantity
    /\ result = "-"
    /\ orders = <<>>
    /\ faults = {"error"}
    /\ log = <<>>
    /\ NoDaily
    /\ NoLoader

--------------------------------------------------------------------------
(* place_order *)

dailyVars == <<signal, balance, warned>>

fetchVars == <<history, start_time, all_klines, klines, retry, response, wait_time, df>>

saveVars == <<data_file, prior_rows, update_mode, combined_data, emergency_csv, failure>>

loaderVars == <<saveVars, fetchVars>>

planVars == <<caller, positions, target_positions, current_positions, trade_plan, idx,
              faults, dailyVars, loaderVars>>

\* a log line about the trade the loop is at
LogLine(event, err) == [trade |-> idx, event |-> event, error |-> err]

\* Mutation of Return: a call that returns None ends the loop of the caller.
ReturnAborts(res) ==
    /\ result' = res
    /\ pc' = IF caller = "direct" THEN "done"
             ELSE IF res = "none" THEN "failed" ELSE "sleep"
    /\ symbol' = <<>>
    /\ side' = "-"
    /\ quantity' = 0
    /\ params' = NoParams
    /\ current_price' = 0
    /\ request' = 0

\* place_order returns res to its caller; its locals are gone.
Return(res) ==
    /\ result' = res
    /\ pc' = IF caller = "direct" THEN "done" ELSE "sleep"
    /\ symbol' = <<>>
    /\ side' = "-"
    /\ quantity' = 0
    /\ params' = NoParams
    /\ current_price' = 0
    /\ request' = 0

\* Mutation of Fail: the exception is swallowed without a log line.
FailSilently(err) ==
    /\ Return("none")
    /\ UNCHANGED <<orders, log>>

\* logger.error of the except clause of place_order, then return None
Fail(err) ==
    /\ log' = Append(log, LogLine("failed", err))
    /\ Return("none")
    /\ UNCHANGED orders

\* ticker = fetch_ticker(...); the notional value and the if before the loop
FetchTicker ==
    /\ pc = "po_ticker"
    /\ \/ \E err \in faults : Fail(err)
       \/ \E p \in Prices :
            /\ current_price' = p
            /\ pc' = IF MustRaise(quantity, p, params) THEN "po_size" ELSE "po_positions"
            /\ UNCHANGED <<symbol, side, quantity, params, request, result, orders, log>>
    /\ UNCHANGED planVars

\* the test of: while notional_value < 5
TestNotional ==
    /\ pc = "po_size"
    /\ pc' = IF BelowFloor(quantity, current_price) THEN "po_raise" ELSE "po_positions"
    /\ UNCHANGED <<symbol, side, quantity, params, current_price, request, result, orders,
                   log>>
    /\ UNCHANGED planVars

\* the body of the while loop
RaiseQuantity ==
    /\ pc = "po_raise"
    /\ quantity' = RaiseOneLot(quantity)
    /\ pc' = "po_size"
    /\ UNCHANGED <<symbol, side, params, current_price, request, result, orders, log>>
    /\ UNCHANGED planVars

\* positions = fetch_positions([symbol]); positionSide is filled in if missing
FetchOwnPosition ==
    /\ pc = "po_positions"
    /\ \/ \E err \in faults : Fail(err)
       \/ \E held \in {"none", "long", "short"} :
            /\ params' = IF params.positionSide = "none"
                         THEN [params EXCEPT !.positionSide = InferPositionSide(side, held)]
                         ELSE params
            /\ pc' = "po_market"
            /\ UNCHANGED <<symbol, side, quantity, current_price, request, result, orders,
                           log>>
    /\ UNCHANGED planVars

\* market = exchange.market(...); truncation; the minimum amount check
CheckMarket ==
    /\ pc = "po_market"
    /\ \/ Fail("error")
       \/ \E min_amount \in MinAmounts :
            IF BelowMinAmount(IntAbs(quantity), min_amount)
            THEN /\ log' = Append(log, LogLine("skipped", "-"))
                 /\ Return("none")
                 /\ UNCHANGED orders
            ELSE /\ quantity' = IntAbs(quantity)
                 /\ pc' = "po_create"
                 /\ UNCHANGED <<symbol, side, params, current_price, request, result, orders,
                                log>>
    /\ UNCHANGED planVars

Order(amount) ==
    [trade |-> idx, symbol |-> format_symbol_for_binance(symbol), side |-> side,
     amount |-> amount, positionSide |-> params.positionSide,
     requested |-> request, reduceOnly |-> params.reduceOnly, price |-> current_price]

\* exchange.create_order(...): an order, the float error, or another error
CreateOrder ==
    /\ pc = "po_create"
    /\ \/ /\ orders' = Append(orders, Order(quantity))
          /\ log' = Append(log, LogLine("filled", "-"))
          /\ Return("order")
       \/ /\ pc' = "po_create_int"
          /\ UNCHANGED <<symbol, side, quantity, params, current_price, request, result, orders,
                         log>>
       \/ \E err \in faults : Fail(err)
    /\ UNCHANGED planVars

\* the second create_order, with int(quantity)
CreateOrderInt ==
    /\ pc = "po_create_int"
    /\ \/ /\ orders' = Append(orders, Order(IntAbs(quantity)))
          /\ log' = Append(log, LogLine("filled", "-"))
          /\ Return("order")
       \/ \E err \in faults : Fail(err)
    /\ UNCHANGED planVars

--------------------------------------------------------------------------
(* execute_trades *)

callVars == <<symbol, side, quantity, params, current_price, request>>

\* Mutation of FetchPositions: a record that cannot be read is left out.
FetchPositionsPlansAnyway ==
    /\ pc = "fetch_positions"
    /\ \/ /\ current_positions' = ReadPositions(positions).book
          /\ pc' = "plan"
       \/ /\ pc' = "failed"
          /\ UNCHANGED current_positions
    /\ UNCHANGED <<caller, positions, target_positions, trade_plan, idx, result, orders,
                   faults, log>>
    /\ UNCHANGED dailyVars
    /\ UNCHANGED callVars
    /\ UNCHANGED loaderVars

\* positions = fetch_positions() and the loop that fills current_positions
FetchPositions ==
    /\ pc = "fetch_positions"
    /\ \/ LET read == ReadPositions(positions)
          IN  /\ current_positions' = read.book
              /\ pc' = IF read.raised THEN "failed" ELSE "plan"
       \/ /\ pc' = "failed"
          /\ UNCHANGED current_positions
    /\ UNCHANGED <<caller, positions, target_positions, trade_plan, idx, result, orders,
                   faults, log>>
    /\ UNCHANGED dailyVars
    /\ UNCHANGED callVars
    /\ UNCHANGED loaderVars

\* phases 1 and 2
BuildPlan ==
    /\ pc = "plan"
    /\ trade_plan' = TradePlan(current_positions, target_positions)
    /\ idx' = 1
    /\ pc' = "loop"
    /\ UNCHANGED <<caller, positions, target_positions, current_positions, result, orders,
                   faults, log>>
    /\ UNCHANGED dailyVars
    /\ UNCHANGED callVars
    /\ UNCHANGED loaderVars

\* for trade in trade_plan: the next trade, announced in the log
NextTrade ==
    /\ pc = "loop"
    /\ idx <= Len(trade_plan)
    /\ log' = Append(log, LogLine("prepare", "-"))
    /\ pc' = "set_leverage"
    /\ UNCHANGED <<result, orders>>
    /\ UNCHANGED planVars
    /\ UNCHANGED callVars
    /\ UNCHANGED loaderVars

\* self.set_leverage(symbol, leverage=1): the exchange sets the leverage, or
\* raises and set_leverage logs the error and returns None
SetLeverage ==
    /\ pc = "set_leverage"
    /\ \E leverage_set \in BOOLEAN :
        pc' = IF leverage_set THEN "leverage_set" ELSE "leverage_failed"
    /\ UNCHANGED <<result, orders, log>>
    /\ UNCHANGED planVars
    /\ UNCHANGED callVars

\* Mutation of CallPlaceOrder: without leverage the trade is left out.
CallPlaceOrderIfLeverage ==
    /\ pc \in {"leverage_set", "leverage_failed"}
    /\ IF pc = "leverage_failed"
       THEN /\ pc' = "sleep"
            /\ UNCHANGED callVars
       ELSE LET trade == trade_plan[idx]
            IN  /\ symbol' = trade.symbol
                /\ side' = trade.side
                /\ quantity' = trade.quantity
                /\ request' = trade.quantity
                /\ params' = TradeParams(trade)
                /\ current_price' = 0
                /\ pc' = "po_ticker"
    /\ UNCHANGED <<result, orders, log>>
    /\ UNCHANGED planVars

\* result = self.place_order(symbol, trade['side'], trade['quantity'], params)
CallPlaceOrder ==
    /\ pc \in {"leverage_set", "leverage_failed"}
    /\ LET trade == trade_plan[idx]
       IN  /\ symbol' = trade.symbol
           /\ side' = trade.side
           /\ quantity' = trade.quantity
           /\ request' = trade.quantity
           /\ params' = TradeParams(trade)
           /\ current_price' = 0
           /\ pc' = "po_ticker"
    /\ UNCHANGED <<result, orders, log>>
    /\ UNCHANGED planVars

\* Mutation of Sleep: the loop does not move on to the next trade.
SleepStays ==
    /\ pc = "sleep"
    /\ idx' = idx
    /\ pc' = "loop"
    /\ UNCHANGED <<caller, positions, target_positions, current_positions, trade_plan,
                   result, orders, faults, log>>
    /\ UNCHANGED dailyVars
    /\ UNCHANGED callVars
    /\ UNCHANGED loaderVars

\* time.sleep(0.5), then the loop goes on
Sleep ==
    /\ pc = "sleep"
    /\ idx' = idx + 1
    /\ pc' = "loop"
    /\ UNCHANGED <<caller, positions, target_positions, current_positions, trade_plan,
                   result, orders, faults, log>>
    /\ UNCHANGED dailyVars
    /\ UNCHANGED callVars
    /\ UNCHANGED loaderVars

\* the loop is over
Finish ==
    /\ pc = "loop"
    /\ idx > Len(trade_plan)
    /\ pc' = "done"
    /\ UNCHANGED <<result, orders, log>>
    /\ UNCHANGED planVars
    /\ UNCHANGED callVars
    /\ UNCHANGED loaderVars

--------------------------------------------------------------------------
(* run_daily_trade *)

execVars == <<caller, positions, current_positions, trade_plan, idx, result, orders,
              faults, log>>

\* days_diff > 3
IsStale(days) == days > StaleDays

\* Mutation of ReadSignal: an empty signal is traded like any other.
ReadSignalTradesEmpty ==
    /\ pc = "read_signal"
    /\ pc' = "check_date"
    /\ UNCHANGED <<target_positions, dailyVars>>
    /\ UNCHANGED execVars
    /\ UNCHANGED callVars
    /\ UNCHANGED loaderVars

\* the latest log file is looked up and parsed; without a signal, return
ReadSignal ==
    /\ pc = "read_signal"
    /\ pc' = IF signal.target = <<>> THEN "no_signal" ELSE "check_date"
    /\ UNCHANGED <<target_positions, dailyVars>>
    /\ UNCHANGED execVars
    /\ UNCHANGED callVars
    /\ UNCHANGED loaderVars

\* Mutation of CheckDate: an old signal is not executed.
CheckDateBlocks ==
    /\ pc = "check_date"
    /\ warned' = IsStale(signal.days)
    /\ pc' = IF IsStale(signal.days) THEN "no_signal" ELSE "get_balance"
    /\ UNCHANGED <<target_positions, signal, balance>>
    /\ UNCHANGED execVars
    /\ UNCHANGED callVars
    /\ UNCHANGED loaderVars

\* the age of the signal is computed; an old signal is warned about
CheckDate ==
    /\ pc = "check_date"
    /\ warned' = IsStale(signal.days)
    /\ pc' = "get_balance"
    /\ UNCHANGED <<target_positions, signal, balance>>
    /\ UNCHANGED execVars
    /\ UNCHANGED callVars
    /\ UNCHANGED loaderVars

\* Mutation of GetBalance: only a negative balance ends the cycle.
GetBalanceTradesOnZero ==
    /\ pc = "get_balance"
    /\ \E b \in Balances :
        /\ balance' = b
        /\ IF b < 0
           THEN pc' = "no_balance" /\ UNCHANGED target_positions
           ELSE pc' = "fetch_positions" /\ target_positions' = signal.target
    /\ UNCHANGED <<signal, warned>>
    /\ UNCHANGED execVars
    /\ UNCHANGED callVars
    /\ UNCHANGED loaderVars

\* balance = executor.get_account_balance(); without balance, return;
\* otherwise executor.execute_trades(target_positions)
GetBalance ==
    /\ pc = "get_balance"
    /\ \E b \in Balances :
        /\ balance' = b
        /\ IF b <= 0
           THEN pc' = "no_balance" /\ UNCHANGED target_positions
           ELSE pc' = "fetch_positions" /\ target_positions' = signal.target
    /\ UNCHANGED <<signal, warned>>
    /\ UNCHANGED execVars
    /\ UNCHANGED callVars
    /\ UNCHANGED loaderVars

--------------------------------------------------------------------------
(* Data loader (src/data_loader.py): update_all_data, merge and save *)

traderVars == <<caller, positions, target_positions, current_positions, trade_plan, idx,
                result, orders, faults, log, dailyVars, callVars>>

\* pd.concat([existing_data, combined_data]) and drop_duplicates(keep='last'):
\* of two rows for one candle, the new one is kept
MergeRows(existing, new) ==
    new \cup {r \in existing : r.candle \notin CandlesOf(new)}

\* incremental mode with a file: the new rows are merged with the rows of the
\* file; when that raises, the error is logged and the update goes on
MergeExisting ==
    /\ pc = "merge"
    /\ IF update_mode = "incremental" /\ data_file.exists
       THEN \/ /\ data_file.readable
               /\ combined_data' = MergeRows(data_file.rows, combined_data)
               /\ UNCHANGED failure
            \/ /\ data_file.readable
               /\ combined_data' = data_file.rows \cup combined_data
               /\ failure' = "merge"
            \/ /\ failure' = "merge"
               /\ UNCHANGED combined_data
       ELSE UNCHANGED <<combined_data, failure>>
    /\ pc' = "save"
    /\ UNCHANGED <<data_file, prior_rows, update_mode, emergency_csv>>
    /\ UNCHANGED fetchVars
    /\ UNCHANGED traderVars

\* data_copy.to_parquet(self.data_path) and the statistics; an exception
\* before the file is opened leaves it as it was, one while it is written
\* leaves a file that cannot be read
SaveParquet ==
    /\ pc = "save"
    /\ \/ /\ data_file' = [exists |-> TRUE, readable |-> TRUE, rows |-> combined_data]
          /\ pc' = "saved"
          /\ UNCHANGED failure
       \/ /\ data_file' = [exists |-> TRUE, readable |-> TRUE, rows |-> combined_data]
          /\ pc' = "emergency"
          /\ failure' = "statistics"
       \/ /\ pc' = "emergency"
          /\ failure' = "write"
          /\ UNCHANGED data_file
       \/ /\ data_file' = [exists |-> TRUE, readable |-> FALSE, rows |-> {}]
          /\ pc' = "emergency"
          /\ failure' = "write"
    /\ UNCHANGED <<prior_rows, update_mode, combined_data, emergency_csv>>
    /\ UNCHANGED fetchVars
    /\ UNCHANGED traderVars

\* combined_data.to_csv(emergency_path); when that raises too, re-raise
EmergencyCsv ==
    /\ pc = "emergency"
    /\ \/ /\ emergency_csv' = combined_data
          /\ pc' = "save_failed"
       \/ /\ pc' = "raised"
          /\ UNCHANGED emergency_csv
    /\ UNCHANGED <<data_file, prior_rows, update_mode, combined_data, failure>>
    /\ UNCHANGED fetchVars
    /\ UNCHANGED traderVars

LoaderNext ==
    \/ MergeExisting
    \/ SaveParquet
    \/ EmergencyCsv

--------------------------------------------------------------------------
(* Data loader (src/data_loader.py): fetch_daily_klines *)

\* the open times of the daily bars the exchange has, oldest first
BarTimes == [k \in 1..history |-> k * DayMs]

NotBefore(t) == SelectSeq(BarTimes, LAMBDA open_time : open_time >= t)

\* the answer to a klines request: the bars from startTime on, 'limit' at most
Page(startTime) ==
    LET served == NotBefore(startTime)
    IN  SubSeq(served, 1, IF Len(served) < PageLimit THEN Len(served) ELSE PageLimit)

fetchLocals == <<history, start_time, all_klines, klines, df>>

\* a request is sent while the for-loop over range(max_retries) has a turn
\* left; the loop is followed while the rows kept are MaxRows at most
CanRequest ==
    /\ pc = "fk_request"
    /\ retry < MaxRetries
    /\ Len(all_klines) <= MaxRows

\* after the wait the for-loop goes on, or is over without a break
AfterWait == IF retry + 1 < MaxRetries THEN "fk_request" ELSE "fk_page"

\* status 429: wait 60 s times the attempt, then continue
RateLimited ==
    /\ CanRequest
    /\ response' = "429"
    /\ wait_time' = RateLimitWait * (retry + 1)
    /\ retry' = retry + 1
    /\ pc' = AfterWait
    /\ UNCHANGED fetchLocals
    /\ UNCHANGED saveVars
    /\ UNCHANGED traderVars

\* status 418: wait 300 s times the attempt, then continue
Banned ==
    /\ CanRequest
    /\ response' = "418"
    /\ wait_time' = BanWait * (retry + 1)
    /\ retry' = retry + 1
    /\ pc' = AfterWait
    /\ UNCHANGED fetchLocals
    /\ UNCHANGED saveVars
    /\ UNCHANGED traderVars

\* Mutation of TimedOut: a timeout is always followed by a wait and a retry.
TimedOutRetriesOn ==
    /\ pc = "fk_request"
    /\ Len(all_klines) <= MaxRows
    /\ retry <= MaxRetries
    /\ response' = "timeout"
    /\ retry' = retry + 1
    /\ wait_time' = TimeoutWait * (retry + 1)
    /\ pc' = "fk_request"
    /\ UNCHANGED df
    /\ UNCHANGED <<history, start_time, all_klines, klines>>
    /\ UNCHANGED saveVars
    /\ UNCHANGED traderVars

\* requests.exceptions.Timeout: wait 5 s times the attempt and continue, or
\* on the last attempt return an empty DataFrame
TimedOut ==
    /\ CanRequest
    /\ response' = "timeout"
    /\ retry' = retry + 1
    /\ IF retry < MaxRetries - 1
       THEN /\ wait_time' = TimeoutWait * (retry + 1)
            /\ pc' = "fk_request"
            /\ UNCHANGED df
       ELSE /\ df' = <<>>
            /\ pc' = "fk_done"
            /\ UNCHANGED wait_time
    /\ UNCHANGED <<history, start_time, all_klines, klines>>
    /\ UNCHANGED saveVars
    /\ UNCHANGED traderVars

\* requests.exceptions.RequestException (raise_for_status included): the same
\* with its own wait
RequestFailed ==
    /\ CanRequest
    /\ response' = "error"
    /\ retry' = retry + 1
    /\ IF retry < MaxRetries - 1
       THEN /\ wait_time' = RequestErrorWait * (retry + 1)
            /\ pc' = "fk_request"
            /\ UNCHANGED df
       ELSE /\ df' = <<>>
            /\ pc' = "fk_done"
            /\ UNCHANGED wait_time
    /\ UNCHANGED <<history, start_time, all_klines, klines>>
    /\ UNCHANGED saveVars
    /\ UNCHANGED traderVars

\* klines = response.json(); break
PageReceived ==
    /\ CanRequest
    /\ response' = "ok"
    /\ retry' = retry + 1
    /\ klines' = Bound(Page(start_time))
    /\ pc' = "fk_page"
    /\ UNCHANGED <<history, start_time, all_klines, wait_time, df>>
    /\ UNCHANGED saveVars
    /\ UNCHANGED traderVars

\* after the for-loop: reading klines when it was never assigned raises, and
\* the outer except returns an empty DataFrame; an empty page ends the
\* while-loop; else the page is kept, start_time moves past its last bar,
\* and a page shorter than 'limit' ends the while-loop.  After the
\* while-loop the bars kept are returned (an empty DataFrame if none).
NextPage ==
    /\ pc = "fk_page"
    /\ IF ~klines.bound
       THEN /\ df' = <<>>
            /\ pc' = "fk_done"
            /\ UNCHANGED <<start_time, all_klines, retry, response>>
       ELSE IF klines.rows = <<>>
       THEN /\ df' = all_klines
            /\ pc' = "fk_done"
            /\ UNCHANGED <<start_time, all_klines, retry, response>>
       ELSE /\ all_klines' = all_klines \o klines.rows
            /\ start_time' = klines.rows[Len(klines.rows)] + 1
            /\ IF Len(klines.rows) < PageLimit
               THEN /\ df' = all_klines'
                    /\ pc' = "fk_done"
                    /\ UNCHANGED <<retry, response>>
               ELSE /\ retry' = 0
                    /\ response' = "-"
                    /\ pc' = "fk_request"
                    /\ UNCHANGED df
    /\ UNCHANGED <<history, klines, wait_time>>
    /\ UNCHANGED saveVars
    /\ UNCHANGED traderVars

FetchNext ==
    \/ RateLimited
    \/ Banned
    \/ TimedOut
    \/ RequestFailed
    \/ PageReceived
    \/ NextPage

--------------------------------------------------------------------------
(* Specifications *)

SizerNext ==
    \/ FetchTicker
    \/ TestNotional
    \/ RaiseQuantity
    \/ FetchOwnPosition
    \/ CheckMarket
    \/ CreateOrder
    \/ CreateOrderInt

Next ==
    \/ FetchPositions
    \/ BuildPlan
    \/ NextTrade
    \/ SetLeverage
    \/ CallPlaceOrder
    \/ Sleep
    \/ Finish
    \/ FetchTicker
    \/ TestNotional
    \/ RaiseQuantity
    \/ FetchOwnPosition
    \/ CheckMarket
    \/ CreateOrder
    \/ CreateOrderInt

\* one call of execute_trades
Spec == Init /\ [][Next]_vars

\* one call of execute_trades on a one-instrument account
ScenarioSpec == ScenarioInit /\ [][Next]_vars

\* one call of execute_trades, with errors of every kind
FaultSpec == FaultInit /\ [][Next]_vars

DailyNext ==
    \/ ReadSignal
    \/ CheckDate
    \/ GetBalance
    \/ Next

\* one call of run_daily_trade
DailySpec == DailyInit /\ [][DailyNext]_vars

\* the end of one call of update_all_data
LoaderSpec == LoaderInit /\ [][LoaderNext]_vars

\* one call of execute_trades by a caller that spells the instrument its way
SpelledSpec == SpelledInit /\ [][Next]_vars

\* one call of execute_trades on an account whose records may lack the tag
TaglessSpec == TaglessInit /\ [][Next]_vars

\* one call of fetch_daily_klines
FetchSpec == FetchInit /\ [][FetchNext]_vars

\* one call of place_order
SizerSpec == SizerInit /\ [][SizerNext]_vars

\* one call of place_order; the interpreter keeps executing the method
SizerFairSpec == SizerInit /\ [][SizerNext]_vars /\ WF_vars(SizerNext)

--------------------------------------------------------------------------
(* Properties of the trade plan *)

\* the plan of this call has just been built (it is never changed afterwards)
PlanBuilt == pc = "loop" /\ idx = 1

\* the canonical instrument an action is for
Instrument(trade) == format_symbol_for_binance(trade.symbol)

TargetInstruments == {format_symbol_for_binance(k) : k \in Keys(target_positions)}

ActionsFor(plan, inst) == {i \in 1..Len(plan) : Instrument(plan[i]) = inst}

PlanInstruments(plan) == {Instrument(plan[i]) : i \in 1..Len(plan)}

\* The effect of one action on a position book: a close sets its side to 0,
\* an adjust moves its side by the quantity (buy raises LONG and lowers SHORT,
\* sell lowers LONG and raises SHORT).
ApplyTrade(book, trade) ==
    LET k == Instrument(trade)
        b == IF HasKey(book, k)
             THEN book
             ELSE Append(book, [symbol |-> k, LONG |-> 0, SHORT |-> 0])
        i == IndexOf(b, k)
        ps == trade.positionSide
        grows == (ps = "LONG" /\ trade.side = "buy") \/ (ps = "SHORT" /\ trade.side = "sell")
        after == IF trade.action = "close" THEN 0
                 ELSE IF grows THEN b[i][ps] + trade.quantity
                 ELSE b[i][ps] - trade.quantity
    IN  [b EXCEPT ![i] = [@ EXCEPT ![ps] = after]]

RECURSIVE ApplyPlan(_, _)
ApplyPlan(book, plan) ==
    IF plan = <<>> THEN book
    ELSE ApplyPlan(ApplyTrade(book, Head(plan)), Tail(plan))

\* C1: once the plan is applied to the current book, planning again for the
\* same target yields the empty plan.
C1_Idempotent ==
    PlanBuilt =>
        TradePlan(ApplyPlan(current_positions, trade_plan), target_positions) = <<>>

C1_Witness ==
    /\ PlanBuilt
    /\ \E i, j \in 1..Len(trade_plan) :
           trade_plan[i].action = "close" /\ trade_plan[j].action = "adjust"
    /\ ApplyPlan(current_positions, trade_plan) # current_positions
    /\ TradePlan(ApplyPlan(current_positions, trade_plan), target_positions) = <<>>

\* C2: every action of the plan has a quantity strictly greater than 0.
C2_PositiveQuantity ==
    PlanBuilt => \A i \in 1..Len(trade_plan) : trade_plan[i].quantity > 0

C2_Witness ==
    /\ PlanBuilt
    /\ \E i, j \in 1..Len(trade_plan) :
           /\ trade_plan[i].action = "close" /\ trade_plan[i].quantity > 0
           /\ trade_plan[j].action = "adjust" /\ trade_plan[j].quantity > 0
    /\ \E e \in 1..Len(target_positions) :
           /\ target_positions[e].qty # 0
           /\ Abs(QtyDiff(Abs(target_positions[e].qty),
                          GetInfo(current_positions, target_positions[e].symbol).LONG))
                  \in 1..(Epsilon * QtyScale)

ClosesOf(plan, inst, ps) ==
    {i \in ActionsFor(plan, inst) : plan[i].action = "close" /\ plan[i].positionSide = ps}

\* C3: an instrument held but absent from the target gets exactly one close for
\* each side held (sell/LONG, buy/SHORT, the held magnitude) and no adjust.
C3_AbsentIsCleared ==
    PlanBuilt =>
        \A e \in 1..Len(current_positions) :
            LET held == current_positions[e]
                inst == held.symbol
            IN  inst \notin TargetInstruments =>
                  /\ Cardinality(ClosesOf(trade_plan, inst, "LONG"))
                        = (IF held.LONG > 0 THEN 1 ELSE 0)
                  /\ Cardinality(ClosesOf(trade_plan, inst, "SHORT"))
                        = (IF held.SHORT > 0 THEN 1 ELSE 0)
                  /\ \A i \in ClosesOf(trade_plan, inst, "LONG") :
                        trade_plan[i].side = "sell" /\ trade_plan[i].quantity = held.LONG
                  /\ \A i \in ClosesOf(trade_plan, inst, "SHORT") :
                        trade_plan[i].side = "buy" /\ trade_plan[i].quantity = held.SHORT
                  /\ \A i \in ActionsFor(trade_plan, inst) : trade_plan[i].action # "adjust"

C3_Witness ==
    /\ PlanBuilt
    /\ target_positions # <<>>
    /\ \E e \in 1..Len(current_positions) :
           /\ current_positions[e].symbol \notin TargetInstruments
           /\ current_positions[e].LONG > 0
           /\ current_positions[e].SHORT > 0
           /\ Cardinality(ActionsFor(trade_plan, current_positions[e].symbol)) = 2

\* C4: for one instrument, the close of the opposite side comes at an earlier
\* index of the plan than the adjust of the wanted side.
C4_CloseBeforeAdjust ==
    PlanBuilt =>
        \A i, j \in 1..Len(trade_plan) :
            ( /\ Instrument(trade_plan[i]) = Instrument(trade_plan[j])
              /\ trade_plan[i].action = "close"
              /\ trade_plan[j].action = "adjust"
              /\ trade_plan[i].positionSide # trade_plan[j].positionSide )
            => i < j

C4_Witness ==
    /\ PlanBuilt
    /\ \E i, j \in 1..Len(trade_plan) :
           /\ Instrument(trade_plan[i]) = Instrument(trade_plan[j])
           /\ trade_plan[i].action = "close" /\ trade_plan[i].positionSide = "LONG"
           /\ trade_plan[j].action = "adjust" /\ trade_plan[j].positionSide = "SHORT"
           /\ i < j

\* C5: an instrument has at most two actions in a plan, never two with the same
\* position side and kind; they are a close of the opposite side and an adjust
\* of the wanted side, or closes only.
C5_AtMostTwoActions ==
    PlanBuilt =>
        \A inst \in PlanInstruments(trade_plan) :
            LET acts == ActionsFor(trade_plan, inst)
            IN  /\ Cardinality(acts) <= 2
                /\ \A i, j \in acts :
                      ( /\ trade_plan[i].positionSide = trade_plan[j].positionSide
                        /\ trade_plan[i].action = trade_plan[j].action ) => i = j
                /\ \A i, j \in acts :
                      (trade_plan[i].action = "adjust" /\ i # j) =>
                          /\ trade_plan[j].action = "close"
                          /\ trade_plan[j].positionSide # trade_plan[i].positionSide

C5_Witness ==
    /\ PlanBuilt
    /\ \E a, b \in PlanInstruments(trade_plan) :
           /\ a # b
           /\ Cardinality(ActionsFor(trade_plan, a)) = 2
           /\ \E i \in ActionsFor(trade_plan, a) : trade_plan[i].action = "adjust"
           /\ \E i \in ActionsFor(trade_plan, a) : trade_plan[i].action = "close"
           /\ b \notin TargetInstruments
           /\ \A i \in ActionsFor(trade_plan, b) : trade_plan[i].action = "close"

\* the book and the target of Scenario C: LONG 3 held, -4 wanted
ScenarioC ==
    /\ current_positions = <<[symbol |-> LogSymbol("BTC"), LONG |-> 3 * QtyScale, SHORT |-> 0]>>
    /\ target_positions = <<[symbol |-> LogSymbol("BTC"), qty |-> -4 * QtyScale]>>

\* C11: Scenario C.  With LONG 3 held and a target of -4, the plan is the close
\* of the long side (sell, LONG, 3) followed by the adjust (sell, SHORT, 4).
C11_ScenarioC ==
    (PlanBuilt /\ ScenarioC) =>
        trade_plan = << Trade(LogSymbol("BTC"), "sell", 3 * QtyScale, "LONG", "close"),
                        Trade(LogSymbol("BTC"), "sell", 4 * QtyScale, "SHORT", "adjust") >>

C11_Witness ==
    /\ PlanBuilt
    /\ ScenarioC
    /\ Len(trade_plan) = 2
    /\ trade_plan[1].action = "close" /\ trade_plan[1].quantity = 3 * QtyScale
    /\ trade_plan[2].action = "adjust" /\ trade_plan[2].quantity = 4 * QtyScale

AdjustsOf(plan, inst, ps) ==
    {i \in ActionsFor(plan, inst) : plan[i].action = "adjust" /\ plan[i].positionSide = ps}

Opposite(ps) == IF ps = "LONG" THEN "SHORT" ELSE "LONG"

\* the order side that makes a position side larger, and the one that makes
\* it smaller
Increases(ps) == IF ps = "LONG" THEN "buy" ELSE "sell"

Decreases(ps) == IF ps = "LONG" THEN "sell" ELSE "buy"

\* C20: for a target t # 0 of an instrument, with W the wanted side (LONG if
\* t > 0, SHORT otherwise) and O the other side: the plan closes O, with the
\* quantity held on O, exactly if O is held; and with diff = |t| - held[W] it
\* adjusts W by |diff| exactly if |diff| > epsilon, with the side that
\* increases W if diff > 0 and the side that decreases W if diff < 0.
C20_NonzeroTargetRule ==
    PlanBuilt =>
        \A e \in 1..Len(target_positions) :
            LET t == target_positions[e].qty
                inst == format_symbol_for_binance(target_positions[e].symbol)
                held == GetInfo(current_positions, inst)
                W == IF t > 0 THEN "LONG" ELSE "SHORT"
                O == Opposite(W)
                diff == Abs(t) - held[W]
                closes == ClosesOf(trade_plan, inst, O)
                adjusts == AdjustsOf(trade_plan, inst, W)
            IN  t # 0 =>
                  /\ closes # {} <=> held[O] > 0
                  /\ \A i \in closes :
                        /\ trade_plan[i].quantity = held[O]
                        /\ trade_plan[i].side = Decreases(O)
                  /\ Cardinality(closes) <= 1
                  /\ adjusts # {} <=> Abs(diff) > Epsilon * QtyScale
                  /\ \A i \in adjusts :
                        /\ trade_plan[i].quantity = Abs(diff)
                        /\ diff > 0 => trade_plan[i].side = Increases(W)
                        /\ diff < 0 => trade_plan[i].side = Decreases(W)
                  /\ Cardinality(adjusts) <= 1

C20_Witness ==
    /\ PlanBuilt
    /\ \E e \in 1..Len(target_positions) :
           LET inst == format_symbol_for_binance(target_positions[e].symbol)
               held == GetInfo(current_positions, inst)
           IN  /\ target_positions[e].qty < 0
               /\ held.LONG > 0
               /\ held.SHORT > Abs(target_positions[e].qty) + Epsilon * QtyScale
               /\ \E i \in ClosesOf(trade_plan, inst, "LONG") : trade_plan[i].side = "sell"
               /\ \E i \in AdjustsOf(trade_plan, inst, "SHORT") : trade_plan[i].side = "buy"
    /\ \E e \in 1..Len(target_positions) :
           LET inst == format_symbol_for_binance(target_positions[e].symbol)
               held == GetInfo(current_positions, inst)
           IN  /\ target_positions[e].qty > 0
               /\ target_positions[e].qty - held.LONG = Epsilon * QtyScale
               /\ AdjustsOf(trade_plan, inst, "LONG") = {}

\* the thresholds a caller may want: from the smallest quantity to the default
Epsilons == 1..(Epsilon * QtyScale)

\* C21: the threshold of an adjust is an input of the planner.  For every
\* epsilon supplied (the default is 1), the plan has an adjust on the wanted
\* side of a nonzero target exactly if |diff| > epsilon; with an epsilon below
\* 1 a difference of exactly 1 is adjusted.
C21_EpsilonIsInput ==
    PlanBuilt =>
        \A epsilon \in Epsilons :
            \A e \in 1..Len(target_positions) :
                LET t == target_positions[e].qty
                    inst == format_symbol_for_binance(target_positions[e].symbol)
                    W == IF t > 0 THEN "LONG" ELSE "SHORT"
                    diff == Abs(t) - GetInfo(current_positions, inst)[W]
                IN  t # 0 => (AdjustsOf(trade_plan, inst, W) # {} <=> Abs(diff) > epsilon)

\* C22: for an instrument whose target is exactly 0, the plan has one close for
\* each side that is held, with the quantity held, and no adjust.
C22_ZeroTargetRule ==
    PlanBuilt =>
        \A e \in 1..Len(target_positions) :
            LET inst == format_symbol_for_binance(target_positions[e].symbol)
                held == GetInfo(current_positions, inst)
            IN  target_positions[e].qty = 0 =>
                  /\ \A ps \in {"LONG", "SHORT"} :
                        /\ Cardinality(ClosesOf(trade_plan, inst, ps))
                              = (IF held[ps] > 0 THEN 1 ELSE 0)
                        /\ \A i \in ClosesOf(trade_plan, inst, ps) :
                              /\ trade_plan[i].quantity = held[ps]
                              /\ trade_plan[i].side = Decreases(ps)
                  /\ \A i \in ActionsFor(trade_plan, inst) : trade_plan[i].action = "close"

C22_Witness ==
    /\ PlanBuilt
    /\ \E e \in 1..Len(target_positions) :
           LET inst == format_symbol_for_binance(target_positions[e].symbol)
               held == GetInfo(current_positions, inst)
           IN  /\ target_positions[e].qty = 0
               /\ held.LONG > 0
               /\ held.SHORT > 0
               /\ held.LONG # held.SHORT
               /\ Cardinality(ActionsFor(trade_plan, inst)) = 2

\* C23: the plan has two phases and is determined by the books.  Every action
\* for an instrument that is not in the target comes before every action for
\* an instrument that is, and the plan is the one value the planning rule
\* gives for the current book and the target book.
C23_TwoPhases ==
    PlanBuilt =>
        /\ \A i, j \in 1..Len(trade_plan) :
               ( /\ Instrument(trade_plan[i]) \notin TargetInstruments
                 /\ Instrument(trade_plan[j]) \in TargetInstruments ) => i < j
        /\ trade_plan = TradePlan(BuildBook(positions), target_positions)

C23_Witness ==
    /\ PlanBuilt
    /\ Len(current_positions) = 2
    /\ current_positions[1].symbol \in TargetInstruments
    /\ current_positions[2].symbol \notin TargetInstruments
    /\ Len(trade_plan) = 3
    /\ Instrument(trade_plan[1]) = current_positions[2].symbol
    /\ Instrument(trade_plan[2]) = current_positions[1].symbol
    /\ Instrument(trade_plan[3]) # current_positions[2].symbol

--------------------------------------------------------------------------
(* Properties of the position book *)

\* current_positions has just been filled from the raw records
BookBuilt == pc = "plan"

HasContracts(pos) == pos.contracts # 0

\* the raw records with contracts of one instrument and position side
RecordsOf(inst, ps) ==
    {i \in 1..Len(positions) :
        /\ format_symbol_for_binance(positions[i].symbol) = inst
        /\ positions[i].positionSide = ps
        /\ HasContracts(positions[i])}

\* what the records of one instrument and position side amount to: the
\* contracts of the last of them, 0 without any
HeldOf(inst, ps) ==
    LET r == RecordsOf(inst, ps)
    IN  IF r = {} THEN 0
        ELSE positions[CHOOSE i \in r : \A j \in r : j <= i].contracts

\* C18: the position book has an instrument only if one of its records has
\* contracts; the records without contracts change nothing; the LONG entry
\* is what the LONG records say and the SHORT entry what the SHORT records
\* say, each at least 0.
C18_Accountant ==
    BookBuilt =>
        /\ \A e \in 1..Len(current_positions) :
               LET inst == current_positions[e].symbol
               IN  /\ RecordsOf(inst, "LONG") \cup RecordsOf(inst, "SHORT") # {}
                   /\ current_positions[e].LONG = HeldOf(inst, "LONG")
                   /\ current_positions[e].SHORT = HeldOf(inst, "SHORT")
                   /\ current_positions[e].LONG >= 0
                   /\ current_positions[e].SHORT >= 0
                   /\ \A f \in 1..Len(current_positions) :
                          current_positions[f].symbol = inst => f = e
        /\ current_positions = BuildBook(SelectSeq(positions, HasContracts))

C18_Witness ==
    /\ BookBuilt
    /\ Len(positions) = 2
    /\ Len(current_positions) = 1
    /\ \E i \in 1..Len(positions) :
           /\ ~HasContracts(positions[i])
           /\ ~HasKey(current_positions, format_symbol_for_binance(positions[i].symbol))
    /\ current_positions[1].SHORT > 0
    /\ current_positions[1].LONG = 0

--------------------------------------------------------------------------
(* Properties of order sizing *)

Submitted == {orders[i] : i \in 1..Len(orders)}

IsLotMultiple(q) == q % QtyScale = 0

MeetsFloor(q, p) == q * p >= MinNotional * QtyScale * PriceScale

\* C6: a reduce-only order is submitted with the requested quantity, unchanged
\* (the exchange takes the magnitude, the side carries the direction).
C6_ReduceOnlyPassThrough ==
    \A o \in Submitted : o.reduceOnly => o.amount = Abs(o.requested)

\* C7: a close action of the plan is sized as reduce-only: it never enters the
\* loop that raises the quantity, and it is submitted with the plan's quantity.
C7_CloseIsReduceOnly ==
    /\ (pc = "po_raise" /\ caller = "execute_trades" /\ current_price > 0)
           => trade_plan[idx].action # "close"
    /\ \A o \in Submitted :
           (o.trade \in 1..Len(trade_plan) /\ trade_plan[o.trade].action = "close")
               => o.amount = trade_plan[o.trade].quantity

\* C8: an order that is not reduce-only, at a price > 0, is submitted with a
\* whole number of lots whose notional value is at least the minimum, and no
\* smaller whole number of lots that covers the request reaches the minimum.
C8_MinimumNotional ==
    \A o \in Submitted :
        (~o.reduceOnly /\ o.price > 0) =>
            /\ IsLotMultiple(o.amount)
            /\ MeetsFloor(o.amount, o.price)
            /\ \A m \in 0..MaxExactFloat :
                   (IsLotMultiple(m) /\ m >= Abs(o.requested) /\ MeetsFloor(m, o.price))
                       => o.amount <= m

InSizingLoop == pc \in {"po_size", "po_raise"}

\* C9: the loop that raises the quantity is always left.
C9_SizingTerminates == InSizingLoop ~> ~InSizingLoop

\* C10: Scenario D. At price 0.4 and minimum notional 5, a requested quantity
\* of 1 that is not reduce-only leaves the loop as 13 and is submitted as 13.
ScenarioD(req, price, reduce_only) ==
    req = 1 * QtyScale /\ price * 10 = 4 * PriceScale /\ MinNotional = 5 /\ ~reduce_only

C10_ScenarioD ==
    /\ (pc \in {"po_positions", "po_market", "po_create", "po_create_int"}
            /\ ScenarioD(request, current_price, params.reduceOnly))
           => Abs(quantity) = 13 * QtyScale
    /\ \A o \in Submitted :
           ScenarioD(o.requested, o.price, o.reduceOnly) => o.amount = 13 * QtyScale

C10_Witness ==
    \E o \in Submitted :
        /\ ScenarioD(o.requested, o.price, o.reduceOnly)
        /\ o.amount = 13 * QtyScale
        /\ ~MeetsFloor(12 * QtyScale, o.price)
        /\ MeetsFloor(13 * QtyScale, o.price)

\* C24: an order of quantity 0 is never submitted.  When the truncation of the
\* sized quantity gives 0, create_order is not called, whatever minimum amount
\* the market gives.
C24_NoZeroOrder ==
    /\ pc \in {"po_create", "po_create_int"} => quantity > 0
    /\ \A o \in Submitted : o.amount > 0

--------------------------------------------------------------------------
(* Properties of the execution loop *)

\* execute_trades has returned after it built a plan
CycleOver == pc \in {"done", "failed"} /\ idx > 0

LinesOf(event) == {i \in 1..Len(log) : log[i].event = event}

\* the log lines that tell how place_order ended
Outcomes == {"filled", "skipped", "failed"}

OutcomeLines == {i \in 1..Len(log) : log[i].event \in Outcomes}

\* C12: a failed action never aborts the rest of the plan.  When the call is
\* over, every action of the plan was announced and handed to place_order,
\* which returned: as many attempts as the plan is long, whatever failed.
C12_FailureNeverAborts ==
    CycleOver =>
        /\ Cardinality(LinesOf("prepare")) = Len(trade_plan)
        /\ \A t \in 1..Len(trade_plan) :
               /\ \E i \in LinesOf("prepare") : log[i].trade = t
               /\ \E i \in OutcomeLines : log[i].trade = t

C12_Witness ==
    /\ pc = "done"
    /\ Len(trade_plan) >= 3
    /\ \E i, j \in LinesOf("failed") :
           log[i].trade = 1 /\ log[j].trade = 2 /\ log[i].error # log[j].error
    /\ \E i \in LinesOf("filled") : log[i].trade = Len(trade_plan)
    /\ Cardinality(LinesOf("prepare")) = Len(trade_plan)

\* the loop is busy with the trade at idx
InTrade == pc \in {"set_leverage", "leverage_set", "leverage_failed", "po_ticker",
                   "po_size", "po_raise", "po_positions", "po_market", "po_create",
                   "po_create_int"}

\* C13: execution is sequential, in plan order.  The orders submitted are those
\* of plan actions at increasing indices, each with the symbol, side and
\* position side of its action; and while the loop is busy with one action,
\* every earlier action has returned (it has its outcome in the log) and no
\* order of this or a later action exists.
C13_Sequential ==
    caller = "execute_trades" =>
        /\ \A i, j \in 1..Len(orders) : i < j => orders[i].trade < orders[j].trade
        /\ \A i \in 1..Len(orders) :
               /\ orders[i].trade \in 1..Len(trade_plan)
               /\ orders[i].symbol = Instrument(trade_plan[orders[i].trade])
               /\ orders[i].side = trade_plan[orders[i].trade].side
               /\ orders[i].positionSide = trade_plan[orders[i].trade].positionSide
        /\ InTrade =>
               /\ \A o \in Submitted : o.trade < idx
               /\ \A t \in 1..(idx - 1) : \E i \in OutcomeLines : log[i].trade = t
               /\ \A i \in OutcomeLines : log[i].trade < idx

C13_Witness ==
    /\ pc = "done"
    /\ Len(trade_plan) = 4
    /\ Len(orders) = 2
    /\ orders[1].trade = 2
    /\ orders[2].trade = 4
    /\ orders[1].symbol # orders[2].symbol

\* place_order gives the action up in this step, with an error of this kind
GivenUp(kind) ==
    /\ log' = Append(log, LogLine("failed", kind))
    /\ pc' \in {"sleep", "done"}

\* C14: an order submission that fails transiently is resubmitted; the action
\* is given up only after several attempts, so never in the step in which its
\* first create_order call fails transiently.
C14_TransientResubmitted ==
    [][~(pc = "po_create" /\ GivenUp("transient"))]_vars

IsOutcome(line) == line.event \in Outcomes

\* What the cycle reports about its actions: the outcome lines of the log.
Report == SelectSeq(log, IsOutcome)

C16_AuthIsFatal ==
    \A i \in LinesOf("failed") :
        log[i].error = "auth" =>
            /\ pc \notin {"po_create", "po_create_int"}
            /\ \A j \in LinesOf("filled") : j < i

--------------------------------------------------------------------------
(* Properties of the daily cycle *)

\* run_daily_trade is inside executor.execute_trades(target_positions)
InExecuteTrades ==
    pc \notin {"read_signal", "check_date", "get_balance", "no_signal", "no_balance"}

\* C17: a stale signal never blocks execution.  A signal older than 3 days is
\* warned about and nothing else: the cycle returns early only without a signal
\* or without balance, and execute_trades gets the target book of the signal
\* and plans from it and the positions alone, whatever the age of the signal.
C17_StaleNeverBlocks ==
    /\ StaleDays = 3
    /\ pc = "no_signal" => signal.target = <<>>
    /\ pc = "no_balance" => balance <= 0
    /\ pc \in {"get_balance", "no_balance"} => (warned <=> signal.days > StaleDays)
    /\ InExecuteTrades =>
           /\ warned <=> signal.days > StaleDays
           /\ target_positions = signal.target
    /\ PlanBuilt => trade_plan = TradePlan(BuildBook(positions), signal.target)

C17_Witness ==
    /\ pc = "done"
    /\ signal.days > 3
    /\ warned
    /\ Len(trade_plan) >= 2
    /\ Len(orders) = Len(trade_plan)
    /\ trade_plan = TradePlan(BuildBook(positions), signal.target)

--------------------------------------------------------------------------
(* Properties of the data loader *)

\* C19: a failure while the dataset is merged or written never loses or
\* corrupts what was persisted: once a step of the update has failed, the file
\* still holds a row for every candle it had a row for when the update began,
\* and if the write failed it holds the very rows it held.
C19_PriorStateSurvives ==
    /\ failure \in {"merge", "write"} =>
           CandlesOf(prior_rows) \subseteq CandlesOf(RowsHeld(data_file))
    /\ failure = "write" => RowsHeld(data_file) = prior_rows


\* place_order is entered with the arguments of the trade the loop is at
PlaceOrderEntered ==
    /\ pc = "po_ticker"
    /\ symbol = trade_plan[idx].symbol
    /\ side = trade_plan[idx].side
    /\ quantity = trade_plan[idx].quantity
    /\ request = trade_plan[idx].quantity
    /\ params = TradeParams(trade_plan[idx])

\* C25: setting the leverage is best effort.  When set_leverage fails for a
\* trade, the next step is the place_order call for that same trade, with the
\* trade's own arguments, and nothing else of the run changes: the plan, the
\* index in it, the orders already submitted and the log are as they were,
\* so the trades after it are executed as after a successful set_leverage.
C25_LeverageBestEffort ==
    [][pc = "leverage_failed" =>
          /\ PlaceOrderEntered'
          /\ UNCHANGED <<trade_plan, idx, orders, log, result, current_positions,
                         target_positions, positions>>]_vars

\* set_leverage has failed for the second trade of a plan, after the first
\* trade was submitted, and the place_order call is what comes next
C25_Witness ==
    /\ pc = "leverage_failed"
    /\ idx = 2
    /\ orders # <<>>
    /\ ENABLED CallPlaceOrder

--------------------------------------------------------------------------
(* Properties of the daily-bar fetch *)

\* C26: the retry policy of the fetch.  A page is requested MaxRetries (2)
\* times at most.  After a 429 the wait is 60 s times the attempt number,
\* after a 418 it is 300 s times the attempt number, and after a timeout or
\* a request error that leaves an attempt it is 5 s times the attempt
\* number.  When the last attempt ends in a timeout or a request error the
\* fetch is over and has returned an empty result.
C26_RetryPolicy ==
    /\ retry <= MaxRetries
    /\ response = "429" => wait_time = RateLimitWait * retry
    /\ response = "418" => wait_time = BanWait * retry
    /\ response = "timeout" /\ retry < MaxRetries => wait_time = TimeoutWait * retry
    /\ response = "error" /\ retry < MaxRetries => wait_time = RequestErrorWait * retry
    /\ response \in {"timeout", "error"} =>
           IF retry < MaxRetries THEN pc = "fk_request"
                                 ELSE pc = "fk_done" /\ df = <<>>

\* the second request for the second page has timed out after a rate limit,
\* and the bars of the first page are not returned
C26_Witness ==
    /\ response = "timeout"
    /\ retry = MaxRetries
    /\ wait_time = RateLimitWait
    /\ all_klines # <<>>
    /\ df = <<>>

NoRepeat(bars) == \A i, j \in 1..Len(bars) : i # j => bars[i] # bars[j]

\* C27: a page whose every request ended in a 429 or a 418 adds no rows: the
\* rows of the page before it are not appended a second time, so the bars
\* kept, and the bars returned, never hold the same open_time twice.
C27_NoBarTwice ==
    /\ NoRepeat(all_klines)
    /\ pc = "fk_done" => NoRepeat(df)

\* C28: the pagination makes progress: when an iteration of the while-loop
\* is followed by another, the start time of the next request is greater
\* than the start time of this one, and the page of this iteration was
\* received in it and is a full page.
C28_PaginationProgress ==
    [][pc = "fk_page" /\ pc' = "fk_request" =>
          /\ start_time' > start_time
          /\ response = "ok"
          /\ Len(klines.rows) = PageLimit]_vars

--------------------------------------------------------------------------
(* Properties of the instrument key *)

\* the actions of a plan for an instrument, in plan order
PlanOf(plan, inst) == SelectSeq(plan, LAMBDA trade : Instrument(trade) = inst)

\* C29: both phases of the planner decide on the canonical key, however the
\* target book spells the instrument.  The actions of the plan for a target
\* instrument are the ones phase 2 plans for its entry, none comes from
\* phase 1, and no side of it is closed twice.
C29_OneCanonicalKey ==
    PlanBuilt =>
        \A e \in 1..Len(target_positions) :
            LET inst == format_symbol_for_binance(target_positions[e].symbol)
            IN  /\ PlanOf(trade_plan, inst) = PlanTarget(target_positions[e], current_positions)
                /\ \A ps \in {"LONG", "SHORT"} :
                       Cardinality(ClosesOf(trade_plan, inst, ps)) <= 1

--------------------------------------------------------------------------
(* Properties of the empty signal *)

\* C30: when the signal source yields no target (no log file, no block that
\* can be parsed, or no position in the block), the cycle ends where the
\* signal was read: the positions are not fetched, no plan is built, nothing
\* is logged about a trade and no order is submitted.
C30_EmptySignalEndsCycle ==
    signal.target = <<>> =>
        /\ pc \in {"read_signal", "no_signal"}
        /\ target_positions = <<>>
        /\ current_positions = <<>>
        /\ trade_plan = <<>>
        /\ log = <<>>
        /\ orders = <<>>

\* the cycle has ended on an empty signal while the account holds a position,
\* which a plan for an empty target would close
C30_Witness ==
    /\ pc = "no_signal"
    /\ signal.target = <<>>
    /\ TradePlan(BuildBook(positions), <<>>) # <<>>
    /\ orders = <<>>

--------------------------------------------------------------------------
(* Properties of the balance test *)

\* get_account_balance has returned
BalanceKnown == pc \notin {"read_signal", "no_signal", "check_date", "get_balance"}

\* C31: when get_account_balance returns a balance of 0 or less (0.0 is also
\* what it returns when the balance call fails), the cycle ends there:
\* execute_trades is not called, so no plan is built and no order is
\* submitted, not even one that closes a position.
C31_NoBalanceNoOrder ==
    BalanceKnown /\ balance <= 0 =>
        /\ pc = "no_balance"
        /\ target_positions = <<>>
        /\ current_positions = <<>>
        /\ trade_plan = <<>>
        /\ log = <<>>
        /\ orders = <<>>

\* the cycle has ended without balance although the plan for the signal
\* would close a position of the account
C31_Witness ==
    /\ pc = "no_balance"
    /\ balance <= 0
    /\ \E i \in 1..Len(TradePlan(BuildBook(positions), signal.target)) :
           TradePlan(BuildBook(positions), signal.target)[i].action = "close"
    /\ orders = <<>>

--------------------------------------------------------------------------
(* Properties of the position fetch *)

\* C32: when fetch_positions fails, or a record that holds contracts has no
\* side tag, execute_trades ends there: no plan is built, nothing is logged
\* about a trade and no order is submitted.  A plan is built only from the
\* book of all the records the exchange reported.
C32_NoPlanWithoutBook ==
    /\ (pc # "fetch_positions" /\ \E i \in 1..Len(positions) : Unreadable(positions[i]))
           => pc = "failed"
    /\ pc = "failed" => trade_plan = <<>> /\ idx = 0 /\ log = <<>> /\ orders = <<>>
    /\ pc \notin {"fetch_positions", "failed"} =>
           /\ \A i \in 1..Len(positions) : ~Unreadable(positions[i])
           /\ current_positions = BuildBook(positions)

\* the loop over the records has raised at the second record, after a
\* position was recorded, and the call has ended without a plan for a target
\* that asks for trades
C32_Witness ==
    /\ pc = "failed"
    /\ Len(positions) = 2
    /\ Unreadable(positions[2])
    /\ \E i \in 1..Len(current_positions) : current_positions[i].LONG > 0
    /\ TradePlan(current_positions, target_positions) # <<>>
    /\ trade_plan = <<>>
    /\ orders = <<>>

==========================================================================
